---- MODULE Spec2Model ----
(***************************************************************************)
(* Model of src/components/profile/services/insightService.ts:             *)
(* analyzeHistoricalPatterns, analyzeTechniquePatterns,                    *)
(* calculatePriorityScore, getStrengthsAndWeaknesses and getInsightHistory.*)
(*                                                                         *)
(* Numbers.  Assessment values are integers.  The trend comparison of      *)
(* analyzeHistoricalPatterns is modelled with the IEEE-754 double rounding *)
(* of its two divisions and of the +5 / -5 (Fl* operators below); the      *)
(* priority score and the variance are carried as exact rationals          *)
(* [n |-> numerator, d |-> denominator], d > 0.                            *)
(***************************************************************************)
EXTENDS Integers, Sequences, FiniteSets, TLC

VARIABLES
    pc,               \* position of the getStrengthsAndWeaknesses invocation
    allAssessments,   \* data of the assessment_results query: JArr(rows) or Null
    assessmentError,  \* error of the assessment_results query
    interactions,     \* data of the technique_interactions query: JArr(rows) or Null
    techniqueError,   \* error of the technique_interactions query
    computed,         \* what lines 177-355 computed; Null before
    result,           \* the value the invocation resolves to (Null while running)
    saveOk,           \* whether the insert succeeded (meaningful at pc = "done")
    history,          \* rows of table user_insight_history, oldest first
    calls,            \* collaborator calls issued so far, in order
    hpc,              \* position of the getInsightHistory invocation
    hfetched,         \* data of the user_insight_history query: JArr(rows), Null on error
    hresult,          \* the value getInsightHistory resolves to (<<>> while running)
    fin,              \* input of the function under analysis (function-level specifications)
    fout              \* its output, or its loop state

vars == <<pc, allAssessments, assessmentError, interactions, techniqueError, computed, result,
          saveOk, history, calls, hpc, hfetched, hresult, fin, fout>>

\* Values that may be null, undefined, a string, an object or an array are
\* carried with their type: t is the type, v the value.
Null == [t |-> "null"]

Undefined == [t |-> "undefined"]

JStr(s) == [t |-> "string", v |-> s]

JObj(fields) == [t |-> "object", v |-> fields]

JArr(items) == [t |-> "array", v |-> items]

--------------------------------------------------------------------------
(* Integer and rational helpers *)

Abs(x) == IF x < 0 THEN -x ELSE x

Sgn(x) == IF x < 0 THEN -1 ELSE IF x > 0 THEN 1 ELSE 0

Min(a, b) == IF a < b THEN a ELSE b

Max(a, b) == IF a > b THEN a ELSE b

RECURSIVE GCD(_, _)
GCD(a, b) == IF b = 0 THEN a ELSE GCD(b, a % b)

\* the rational n/d in lowest terms with a positive denominator
Rat(n, d) ==
    LET s == IF d < 0 THEN -1 ELSE 1
        g == GCD(Abs(n), Abs(d))
    IN  [n |-> (s * n) \div g, d |-> (s * d) \div g]

RInt(i) == [n |-> i, d |-> 1]

RAdd(a, b) == Rat(a.n * b.d + b.n * a.d, a.d * b.d)

RSub(a, b) == Rat(a.n * b.d - b.n * a.d, a.d * b.d)

RMul(a, b) == Rat(a.n * b.n, a.d * b.d)

RLess(a, b) == a.n * b.d < b.n * a.d

RLeq(a, b) == a.n * b.d <= b.n * a.d

RAbs(a) == [n |-> Abs(a.n), d |-> a.d]

RMin(a, b) == IF RLess(b, a) THEN b ELSE a

RMax(a, b) == IF RLess(a, b) THEN b ELSE a

RECURSIVE SumSeq(_)
SumSeq(s) == IF s = <<>> THEN 0 ELSE Head(s) + SumSeq(Tail(s))

RECURSIVE Pow2(_)
Pow2(k) == IF k = 0 THEN 1 ELSE 2 * Pow2(k - 1)

--------------------------------------------------------------------------
(* IEEE-754 binary64, round to nearest, ties to even.                     *)
(* A double x is carried as [n, d, c, p]: x = n/d + (c/d) * 2^(-p), the    *)
(* exact quotient n/d plus the rounding error, a multiple c/d of the unit  *)
(* 2^(-p) of the binade the rounding happened in.  c = 0 when x is exact.  *)

\* 2^k mod m
RECURSIVE PowMod2(_, _)
PowMod2(k, m) == IF k = 0 THEN 1 % m ELSE (2 * PowMod2(k - 1, m)) % m

\* the e with 2^e <= z/k < 2^(e+1), for z, k > 0
RECURSIVE Exp2Up(_, _, _)
Exp2Up(z, k, e) == IF 2 * k > z THEN e ELSE Exp2Up(z, 2 * k, e + 1)

RECURSIVE Exp2Down(_, _, _)
Exp2Down(z, k, e) == IF z >= k THEN e ELSE Exp2Down(2 * z, k, e - 1)

Exp2(z, k) == IF z >= k THEN Exp2Up(z, k, 0) ELSE Exp2Down(z, k, 0)

\* where z/k (z, k > 0) lies between its two neighbours on the grid 2^(-p):
\* rem/k of a unit above the lower one, whose last mantissa bit is `odd`
GridPos(z, k, p) ==
    LET m == ((z % (2 * k)) * PowMod2(p, 2 * k)) % (2 * k)
    IN  [rem |-> m % k, odd |-> (m \div k) = 1]

\* the error, in units of 2^(-p), of rounding a value at t = tn/td of a unit
\* above the lower neighbour, measured from the grid position rem/k of the
\* exact quotient: nearest neighbour, the even one on a tie
RoundErr(rem, k, tn, td, odd) ==
    IF rem = 0 /\ tn = 0 THEN 0
    ELSE IF 2 * tn < td \/ (2 * tn = td /\ ~odd) THEN -rem
    ELSE k - rem

\* s / k, as the double nearest to the quotient
FlDiv(s, k) ==
    IF s = 0 THEN [n |-> 0, d |-> k, c |-> 0, p |-> 0]
    ELSE LET z == Abs(s)
             p == 52 - Exp2(z, k)   \* fraction bits of the binade: 52-bit mantissa
             g == GridPos(z, k, p)
         IN  [n |-> s, d |-> k, c |-> Sgn(s) * RoundErr(g.rem, k, g.rem, k, g.odd), p |-> p]

\* x + i for an integer i, rounded to a double
FlAddInt(x, i) ==
    LET w == x.n + i * x.d
    IN  IF x.c = 0 \/ w = 0 THEN [n |-> w, d |-> x.d, c |-> 0, p |-> x.p]
        ELSE LET z == Abs(w)
                 p == 52 - Exp2(z, x.d)
             IN  IF p >= x.p
                 THEN \* the sum lies on the grid of x, which its own binade refines: exact
                      [n |-> w, d |-> x.d, c |-> x.c, p |-> x.p]
                 ELSE LET g  == GridPos(z, x.d, p)
                          j  == Pow2(x.p - p)
                          tn == g.rem * j + Sgn(w) * x.c
                          td == x.d * j
                      IN  [n |-> w, d |-> x.d,
                           c |-> Sgn(w) * RoundErr(g.rem, x.d, tn, td, g.odd), p |-> p]

\* x < y on doubles
FlLess(x, y) ==
    IF x.n * y.d # y.n * x.d THEN x.n * y.d < y.n * x.d
    ELSE IF x.c = 0 \/ y.c = 0 \/ Sgn(x.c) # Sgn(y.c) THEN x.c < y.c
    ELSE LET q == Max(x.p, y.p)
         IN  x.c * y.d * Pow2(q - x.p) < y.c * x.d * Pow2(q - y.p)

\* the exact quotient a double was rounded from
FlIdeal(x) == Rat(x.n, x.d)

--------------------------------------------------------------------------
(* analyzeHistoricalPatterns, lines 40-76 *)

cognitiveFields ==
    <<"creativity_score", "problem_solving", "pattern_recognition",
      "focus_duration", "task_switching", "emotional_regulation",
      "organization", "time_awareness">>

FieldSet == {cognitiveFields[i] : i \in 1..Len(cognitiveFields)}

\* assessments.map(a => a[field])
FieldValues(assessments, field) ==
    [i \in 1..Len(assessments) |-> assessments[i][field]]

\* the least number of records for which a trend is computed (line 57)
TrendMinRecords == 4

\* the margin a half's mean must exceed the other's by (lines 64-65)
TrendMargin == 5

\* lines 56-66
TrendOf(values) ==
    IF Len(values) >= TrendMinRecords
    THEN LET midPoint   == Len(values) \div 2
             firstHalf  == SubSeq(values, 1, midPoint)
             secondHalf == SubSeq(values, midPoint + 1, Len(values))
             firstAvg   == FlDiv(SumSeq(firstHalf), Len(firstHalf))
             secondAvg  == FlDiv(SumSeq(secondHalf), Len(secondHalf))
         IN  IF FlLess(FlAddInt(firstAvg, TrendMargin), secondAvg) THEN "improving"
             ELSE IF FlLess(secondAvg, FlAddInt(firstAvg, -TrendMargin)) THEN "declining"
             ELSE "stable"
    ELSE "stable"

\* line 69: the population variance, sum((v - average)^2) / n, as an exact rational
VarianceOf(values) ==
    LET n  == Len(values)
        s  == SumSeq(values)
        sq == SumSeq([i \in 1..n |-> values[i] * values[i]])
    IN  Rat(n * sq - s * s, n * n)

\* lines 52-72 for one field.  consistency = max(0, 100 - sqrt(variance)) is
\* carried by the variance it is computed from.
PatternOf(values) ==
    [average  |-> Rat(SumSeq(values), Len(values)),
     trend    |-> TrendOf(values),
     variance |-> VarianceOf(values)]

analyzeHistoricalPatterns(assessments) ==
    IF Len(assessments) = 0 THEN <<>>
    ELSE [f \in FieldSet |-> PatternOf(FieldValues(assessments, f))]

--------------------------------------------------------------------------
(* analyzeTechniquePatterns, lines 79-99 *)

\* Property names every object inherits from Object.prototype.  techniqueStats
\* is created by {} (line 85), so techniqueStats[key] for such a key is the
\* inherited value, which is truthy, and line 89 does not create an entry.
ObjectPrototypeKeys ==
    {"constructor", "toString", "valueOf", "hasOwnProperty", "isPrototypeOf",
     "propertyIsEnumerable", "toLocaleString", "__proto__"}

NewStats == [helpful |-> 0, notHelpful |-> 0, totalInteractions |-> 0, categories |-> <<>>]

\* one iteration of the forEach, lines 87-96, on the own properties of techniqueStats.
\* For an inherited key lines 93-95 write to the inherited object, not to techniqueStats.
TechStep(techniqueStats, interaction) ==
    LET key == interaction.technique_id.v
        st0 == IF key \notin DOMAIN techniqueStats /\ key \notin ObjectPrototypeKeys
               THEN [k \in DOMAIN techniqueStats \cup {key} |->
                        IF k = key THEN NewStats ELSE techniqueStats[k]]
               ELSE techniqueStats
    IN  IF key \in DOMAIN st0
        THEN [st0 EXCEPT ![key] =
                 [@ EXCEPT !.totalInteractions = @ + 1,
                           !.helpful = IF interaction.feedback = JStr("helpful") THEN @ + 1 ELSE @,
                           !.notHelpful = IF interaction.feedback = JStr("not-helpful") THEN @ + 1 ELSE @]]
        ELSE st0

RECURSIVE TechFold(_, _)
TechFold(techniqueStats, rest) ==
    IF rest = <<>> THEN techniqueStats
    ELSE TechFold(TechStep(techniqueStats, Head(rest)), Tail(rest))

analyzeTechniquePatterns(valid) == TechFold(<<>>, valid)

\* the type guard of lines 182-188
ValidInteraction(interaction) ==
    /\ interaction # Null
    /\ interaction.technique_id.t = "string"
    /\ interaction.technique_title.t = "string"
    /\ interaction.feedback \in {JStr("helpful"), JStr("not-helpful"), Null}
    /\ interaction.created_at.t = "string"

RECURSIVE FilterValid(_)
FilterValid(rows) ==
    IF rows = <<>> THEN <<>>
    ELSE IF ValidInteraction(Head(rows)) THEN <<Head(rows)>> \o FilterValid(Tail(rows))
    ELSE FilterValid(Tail(rows))

--------------------------------------------------------------------------
(* calculatePriorityScore, lines 102-140 *)

\* consistency > c and consistency < c for consistency = max(0, 100 - sqrt(variance)),
\* 0 < c < 100: sqrt(variance) < 100 - c, resp. > 100 - c
ConsistencyAbove(pattern, c) == RLess(pattern.variance, RInt((100 - c) * (100 - c)))

ConsistencyBelow(pattern, c) == RLess(RInt((100 - c) * (100 - c)), pattern.variance)

\* lines 116-117
TrendAdjust(score, pattern) ==
    IF pattern.trend = "improving" THEN RAdd(score, RInt(15))
    ELSE IF pattern.trend = "declining" THEN RSub(score, RInt(10))
    ELSE score

\* lines 120-121
ConsistencyAdjust(score, pattern) ==
    IF ConsistencyAbove(pattern, 80) THEN RAdd(score, RInt(8))
    ELSE IF ConsistencyBelow(pattern, 40) THEN RSub(score, RInt(5))
    ELSE score

\* lines 124-127
HistoricalBlend(score, pattern, allAss) ==
    IF pattern.average.n # 0
    THEN LET historicalWeight == RMin(Rat(Len(allAss), 10), Rat(3, 10))
         IN  RAdd(RMul(score, RSub(RInt(1), historicalWeight)),
                  RMul(pattern.average, historicalWeight))
    ELSE score

\* lines 131-137
RecencyBias(score, field, allAss) ==
    IF Len(allAss) > 1
    THEN LET recentTrend == FieldValues(SubSeq(allAss, 1, Min(3, Len(allAss))), field)
         IN  IF Len(recentTrend) >= 2
             THEN RAdd(score, RMul(RInt(recentTrend[1] - recentTrend[Len(recentTrend)]), Rat(2, 10)))
             ELSE score
    ELSE score

\* the score left as it is
Unclamped(score) == score

\* line 139
Clamp(score) == RMax(RInt(0), RMin(RInt(100), score))

calculatePriorityScore(area, patterns, allAss) ==
    LET adjusted == IF area.pattern # Null
                    THEN HistoricalBlend(
                             ConsistencyAdjust(TrendAdjust(RInt(area.value), area.pattern),
                                               area.pattern),
                             area.pattern, allAss)
                    ELSE RInt(area.value)
    IN  Clamp(RecencyBias(adjusted, area.field, allAss))

--------------------------------------------------------------------------
(* The cognitive areas, lines 192-257 *)

AreaOf ==
    [creativity_score     |-> "Creativity",
     problem_solving      |-> "Problem Solving",
     pattern_recognition  |-> "Pattern Recognition",
     focus_duration       |-> "Focus Duration",
     task_switching       |-> "Task Switching",
     emotional_regulation |-> "Emotional Regulation",
     organization         |-> "Organization",
     time_awareness       |-> "Time Awareness"]

StrengthDescriptionOf ==
    [creativity_score     |-> "You excel at generating original ideas and thinking outside the box.",
     problem_solving      |-> "You demonstrate strong abilities in finding solutions to complex challenges.",
     pattern_recognition  |-> "You can easily identify connections and patterns where others might not see them.",
     focus_duration       |-> "You maintain excellent concentration for extended periods.",
     task_switching       |-> "You transition smoothly between different activities while maintaining focus.",
     emotional_regulation |-> "You manage emotional responses effectively in challenging situations.",
     organization         |-> "You maintain excellent organization in tasks, environment, and information.",
     time_awareness       |-> "You have strong skills in estimating and managing time effectively."]

GrowthDescriptionOf ==
    [creativity_score     |-> "Focus on developing creative thinking and innovative problem-solving approaches.",
     problem_solving      |-> "Work on developing systematic approaches to problem-solving and analytical thinking.",
     pattern_recognition  |-> "Practice identifying patterns and connections in information and experiences.",
     focus_duration       |-> "Improve your ability to maintain concentration for extended periods.",
     task_switching       |-> "Work on transitioning between different activities smoothly without losing focus.",
     emotional_regulation |-> "Develop strategies to better manage emotional responses to stressors.",
     organization         |-> "Create systems to better organize your tasks, environment, and information.",
     time_awareness       |-> "Build skills to better estimate and manage time for various activities."]

cognitiveAreas(latestAssessment, historicalPatterns) ==
    [i \in 1..Len(cognitiveFields) |->
        LET f == cognitiveFields[i]
        IN  [field               |-> f,
             value               |-> latestAssessment[f],
             pattern             |-> historicalPatterns[f],
             area                |-> AreaOf[f],
             strengthDescription |-> StrengthDescriptionOf[f],
             growthDescription   |-> GrowthDescriptionOf[f]]]

\* line 260
STRENGTH_THRESHOLD == 70

\* the threshold taken strictly
IsAboveThreshold(priorityScore) == RLess(RInt(STRENGTH_THRESHOLD), priorityScore)

\* line 269
IsStrengthScore(priorityScore) == RLeq(RInt(STRENGTH_THRESHOLD), priorityScore)

\* line 270
IsWeaknessScore(priorityScore) == RLess(priorityScore, RInt(STRENGTH_THRESHOLD))

\* lines 263-272
ScoreAreas(areas, historicalPatterns, allAss) ==
    [i \in 1..Len(areas) |->
        LET priorityScore == calculatePriorityScore(areas[i], historicalPatterns, allAss)
        IN  [field               |-> areas[i].field,
             value               |-> areas[i].value,
             pattern             |-> areas[i].pattern,
             area                |-> areas[i].area,
             strengthDescription |-> areas[i].strengthDescription,
             growthDescription   |-> areas[i].growthDescription,
             priorityScore       |-> priorityScore,
             isStrength          |-> IsStrengthScore(priorityScore),
             isWeakness          |-> IsWeaknessScore(priorityScore)]]

--------------------------------------------------------------------------
(* The comparators of the selection *)

\* pattern?.consistency || 0, as the variance it stands for: consistency is
\* max(0, 100 - sqrt(variance)), so 0 for a variance of 100^2 or more
ConsistencyKey(item) ==
    IF item.pattern = Null THEN RInt(10000)
    ELSE RMin(item.pattern.variance, RInt(10000))

\* the comparator of lines 277-284 (its sign)
StrengthCompare(a, b) ==
    IF RLess(RInt(5), RAbs(RSub(a.priorityScore, b.priorityScore)))
    THEN Sgn(RSub(b.priorityScore, a.priorityScore).n)
    ELSE Sgn(RSub(ConsistencyKey(a), ConsistencyKey(b)).n)

\* the priority score with no bonus
PlainScore(item) == item.priorityScore

\* lines 295-300
ActionabilityScore(item) ==
    LET improvement == IF item.pattern # Null /\ item.pattern.trend = "improving" THEN 10 ELSE 0
    IN  RAdd(item.priorityScore, RInt(improvement))

\* the comparator of lines 293-304 (its sign)
WeaknessCompare(a, b) == Sgn(RSub(ActionabilityScore(a), ActionabilityScore(b)).n)

\* the comparator handed to sort: "strength" (line 277) or "weakness" (line 293)
Compare(which, a, b) ==
    IF which = "strength" THEN StrengthCompare(a, b) ELSE WeaknessCompare(a, b)

--------------------------------------------------------------------------
(* Array.prototype.sort and slice *)

\* a slice that cuts nothing
WholeArray(arr, k) == arr

\* arr.slice(0, k)
Take(arr, k) == SubSeq(arr, 1, Min(k, Len(arr)))

Reverse(arr) == [i \in 1..Len(arr) |-> arr[Len(arr) + 1 - i]]

\* Array.prototype.sort as the engine runs it on an array of fewer than 64
\* elements: the leading run is found (a strictly descending one is reversed)
\* and the remaining elements are inserted by binary search.  For a consistent
\* comparator this is the stable sort the language requires.
RECURSIVE RunEnd(_, _, _, _)
RunEnd(arr, which, descending, idx) ==
    IF idx > Len(arr) THEN idx - 1
    ELSE LET order == Compare(which, arr[idx], arr[idx - 1])
         IN  IF (descending /\ order >= 0) \/ (~descending /\ order < 0) THEN idx - 1
             ELSE RunEnd(arr, which, descending, idx + 1)

RECURSIVE BinarySearch(_, _, _, _, _)
BinarySearch(arr, which, pivot, left, right) ==
    IF left >= right THEN left
    ELSE LET mid == left + ((right - left) \div 2)
         IN  IF Compare(which, pivot, arr[mid]) < 0
             THEN BinarySearch(arr, which, pivot, left, mid)
             ELSE BinarySearch(arr, which, pivot, mid + 1, right)

RECURSIVE BinaryInsertionSort(_, _, _)
BinaryInsertionSort(arr, which, start) ==
    IF start > Len(arr) THEN arr
    ELSE LET pivot == arr[start]
             left  == BinarySearch(arr, which, pivot, 1, start)
             moved == [p \in 1..Len(arr) |->
                          IF p < left \/ p > start THEN arr[p]
                          ELSE IF p = left THEN pivot
                          ELSE arr[p - 1]]
         IN  BinaryInsertionSort(moved, which, start + 1)

Sort(arr, which) ==
    IF Len(arr) < 2 THEN arr
    ELSE LET descending == Compare(which, arr[2], arr[1]) < 0
             runLength  == RunEnd(arr, which, descending, 3)
             run        == IF descending
                           THEN Reverse(SubSeq(arr, 1, runLength)) \o SubSeq(arr, runLength + 1, Len(arr))
                           ELSE arr
         IN  BinaryInsertionSort(run, which, runLength + 1)

--------------------------------------------------------------------------
(* The selection, lines 275-313 *)

\* the most strengths and weaknesses shown (slice(0, 3), lines 285, 305, 312, 313)
MaxShown == 3

KeepStrength(item) == item.isStrength

KeepWeakness(item) == item.isWeakness

\* lines 275-289 and 312
potentialStrengths(scoredAreas) ==
    LET top == Take(Sort(SelectSeq(scoredAreas, KeepStrength), "strength"), MaxShown)
    IN  [i \in 1..Len(top) |-> [area |-> top[i].area, description |-> top[i].strengthDescription]]

\* lines 291-309 and 313
potentialWeaknesses(scoredAreas) ==
    LET top == Take(Sort(SelectSeq(scoredAreas, KeepWeakness), "weakness"), MaxShown)
    IN  [i \in 1..Len(top) |-> [area |-> top[i].area, description |-> top[i].growthDescription]]

--------------------------------------------------------------------------
(* The narrative, lines 316-355 *)

Pad2(k) == IF k < 10 THEN "0" \o ToString(k) ELSE ToString(k)

\* format(new Date(completed_at), 'dd/MM/yyyy'), line 316
FormatDate(completed_at) ==
    Pad2(completed_at.d) \o "/" \o Pad2(completed_at.m) \o "/" \o ToString(completed_at.y)

RECURSIVE Join(_, _)
Join(names, sep) ==
    IF names = <<>> THEN ""
    ELSE IF Len(names) = 1 THEN names[1]
    ELSE names[1] \o sep \o Join(Tail(names), sep)

AreaNames(items) == [i \in 1..Len(items) |-> items[i].area]

\* lines 323-326: Object.entries walks the fields in the order line 51 inserted them
IsImprovingField(f, historicalPatterns) == historicalPatterns[f].trend = "improving"

ImprovingAreas(historicalPatterns) ==
    LET Improving(f) == IsImprovingField(f, historicalPatterns)
        fields == SelectSeq(cognitiveFields, Improving)
    IN  [i \in 1..Len(fields) |-> AreaOf[fields[i]]]

\* lines 328-330
IsHelpfulTechnique(stats) == stats.helpful > stats.notHelpful /\ stats.helpful > 0

HelpfulTechniques(techniquePatterns) ==
    Cardinality({k \in DOMAIN techniquePatterns : IsHelpfulTechnique(techniquePatterns[k])})

\* lines 333-335
StrengthsPhrase(strengths) ==
    IF Len(strengths) > 0
    THEN "your key strengths are " \o Join(AreaNames(strengths), ", ")
    ELSE "you're developing strengths across multiple areas"

\* lines 337-339
WeaknessesPhrase(weaknesses) ==
    IF Len(weaknesses) > 0
    THEN "focusing on " \o Join(AreaNames(weaknesses), ", ") \o " will help you progress further"
    ELSE "you're performing well across all assessed areas"

\* lines 341-343
PatternPhrase(improvingAreas) ==
    IF Len(improvingAreas) > 0
    THEN " Your " \o Join(improvingAreas, " and ") \o " "
         \o (IF Len(improvingAreas) > 1 THEN "are" ELSE "is")
         \o " showing positive trends over time."
    ELSE ""

\* lines 345-347
TechniquePhrase(helpfulTechniques) ==
    IF helpfulTechniques > 0
    THEN " Based on your interactions, you've found " \o ToString(helpfulTechniques)
         \o " technique" \o (IF helpfulTechniques > 1 THEN "s" ELSE "") \o " particularly helpful."
    ELSE ""

AssessmentsNoun(assessmentCount) ==
    " assessment" \o (IF assessmentCount > 1 THEN "s" ELSE "")

\* the number of templates of lines 349-353
TemplateCount == 3

\* insightTemplates[pick - 1], lines 349-353; p holds the interpolated parts
InsightTemplate(pick, p) ==
    IF pick = 1
    THEN "Based on " \o ToString(p.assessmentCount) \o AssessmentsNoun(p.assessmentCount)
         \o " and your latest results from " \o p.formattedDate \o ", " \o p.strengthsPhrase
         \o ". " \o p.weaknessesPhrase \o "." \o p.patternPhrase \o p.techniquePhrase
    ELSE IF pick = 2
    THEN "Your journey shows that " \o p.strengthsPhrase \o ", with data from "
         \o ToString(p.assessmentCount) \o AssessmentsNoun(p.assessmentCount) \o " including "
         \o p.formattedDate \o ". To continue growing, " \o p.weaknessesPhrase \o "."
         \o p.patternPhrase \o p.techniquePhrase
    ELSE "Analysis of your " \o ToString(p.assessmentCount) \o AssessmentsNoun(p.assessmentCount)
         \o " (latest: " \o p.formattedDate \o ") reveals " \o p.strengthsPhrase
         \o ". For optimal progress, " \o p.weaknessesPhrase \o "."
         \o p.patternPhrase \o p.techniquePhrase

--------------------------------------------------------------------------
(* JSON values of the store's jsonb columns *)

\* an Insight[] as the insert writes it (lines 361-362)
InsightsToJson(items) == JArr([i \in 1..Len(items) |-> JObj(items[i])])

--------------------------------------------------------------------------
(* getStrengthsAndWeaknesses, lines 143-392 *)

NoAssessmentsInsight == "Complete an assessment to see personalized insights."

FallbackInsight == "We're having trouble analyzing your data. Please try again later."

\* lines 158-162
NoAssessmentsResult ==
    [strengths |-> <<>>, weaknesses |-> <<>>, generalInsight |-> NoAssessmentsInsight]

\* lines 386-390
FallbackResult ==
    [strengths |-> <<>>, weaknesses |-> <<>>, generalInsight |-> FallbackInsight]

\* the last record of the sequence
OldestAssessment(allAss) == allAss[Len(allAss)]

\* line 177
LatestAssessment(allAss) == allAss[1]

\* lines 177-180 and 192-313: what is computed from the assessment rows alone
Selection(allAss) ==
    LET latestAssessment   == LatestAssessment(allAss)
        historicalPatterns == analyzeHistoricalPatterns(allAss)
        scoredAreas        == ScoreAreas(cognitiveAreas(latestAssessment, historicalPatterns),
                                         historicalPatterns, allAss)
    IN  [latestAssessment   |-> latestAssessment,
         assessmentCount    |-> Len(allAss),
         historicalPatterns |-> historicalPatterns,
         scoredAreas        |-> scoredAreas,
         strengths          |-> Take(potentialStrengths(scoredAreas), MaxShown),
         weaknesses         |-> Take(potentialWeaknesses(scoredAreas), MaxShown)]

\* lines 181-189: techniqueInteractions is the interaction query's data, an
\* array (JArr) or Null
TechniquePatterns(techniqueInteractions) ==
    analyzeTechniquePatterns(
        FilterValid(IF techniqueInteractions = Null THEN <<>> ELSE techniqueInteractions.v))

\* lines 316-355: pick is the template Math.random selects
GeneralInsight(sel, techniquePatterns, pick) ==
    InsightTemplate(pick,
        [assessmentCount  |-> sel.assessmentCount,
         formattedDate    |-> FormatDate(sel.latestAssessment.completed_at),
         strengthsPhrase  |-> StrengthsPhrase(sel.strengths),
         weaknessesPhrase |-> WeaknessesPhrase(sel.weaknesses),
         patternPhrase    |-> PatternPhrase(ImprovingAreas(sel.historicalPatterns)),
         techniquePhrase  |-> TechniquePhrase(HelpfulTechniques(techniquePatterns))])

\* lines 358-364
InsightToSave(userId, generalInsight, strengths, weaknesses, latestAssessment) ==
    [user_id         |-> userId,
     general_insight |-> generalInsight,
     strengths       |-> InsightsToJson(strengths),
     weaknesses      |-> InsightsToJson(weaknesses),
     assessment_id   |-> latestAssessment.id]

\* scoredAreas (line 263) without the texts and the pattern of each area, of
\* which pattern?.trend === 'improving' (lines 295-296) is kept
Scored(scoredAreas) ==
    [i \in 1..Len(scoredAreas) |->
        [field         |-> scoredAreas[i].field,
         area          |-> scoredAreas[i].area,
         priorityScore |-> scoredAreas[i].priorityScore,
         isStrength    |-> scoredAreas[i].isStrength,
         isWeakness    |-> scoredAreas[i].isWeakness,
         improving     |-> scoredAreas[i].pattern # Null
                              /\ scoredAreas[i].pattern.trend = "improving"]]

\* lines 177-355: what is computed between the interaction reply and the
\* insert, given the Selection of the assessment rows
Analyze(sel, techniqueInteractions, pick) ==
    LET techniquePatterns == TechniquePatterns(techniqueInteractions)
    IN  [scored            |-> Scored(sel.scoredAreas),
         techniquePatterns |-> techniquePatterns,
         strengths         |-> sel.strengths,
         weaknesses        |-> sel.weaknesses,
         generalInsight    |-> GeneralInsight(sel, techniquePatterns, pick),
         assessmentId      |-> sel.latestAssessment.id]

\* lines 376-383
FinalResult(c, savedInsight) ==
    [id             |-> IF savedInsight = Null THEN Undefined ELSE savedInsight.id,
     strengths      |-> c.strengths,
     weaknesses     |-> c.weaknesses,
     generalInsight |-> c.generalInsight,
     createdAt      |-> IF savedInsight = Null THEN Undefined ELSE savedInsight.created_at,
     assessmentId   |-> c.assessmentId]

--------------------------------------------------------------------------
(* getInsightHistory, lines 395-425 *)

\* .limit(10), line 402
HistoryLimit == 10

\* the newest-first order with no limit
AllRowsNewestFirst(rows) == Reverse(rows)

\* .order('created_at', { ascending: false }).limit(10) on the table, whose
\* rows are kept oldest first
NewestRows(rows) == Take(Reverse(rows), HistoryLimit)

\* a filter that asks for the area only
HasArea(s) ==
    /\ s.t = "object"
    /\ "area" \in DOMAIN s.v

\* the filter of lines 413 and 416
WellFormedInsight(s) ==
    /\ s.t = "object"
    /\ "area" \in DOMAIN s.v
    /\ "description" \in DOMAIN s.v

\* lines 412-417
ReshapeInsights(stored) ==
    IF stored.t = "array"
    THEN LET kept == SelectSeq(stored.v, WellFormedInsight)
         IN  [i \in 1..Len(kept) |-> kept[i].v]
    ELSE <<>>

\* lines 409-420
ReshapeRow(item) ==
    [id             |-> item.id,
     generalInsight |-> item.general_insight,
     strengths      |-> ReshapeInsights(item.strengths),
     weaknesses     |-> ReshapeInsights(item.weaknesses),
     createdAt      |-> item.created_at,
     assessmentId   |-> item.assessment_id]

ReshapeHistory(rows) == [i \in 1..Len(rows) |-> ReshapeRow(rows[i])]

--------------------------------------------------------------------------
(* The data the collaborators hand over *)

UserId == "test-user-id"

\* the most assessment records a fetch returns
MaxAssess == 4

\* the most interaction rows a fetch returns
MaxInteractions == 2

\* Assessment histories: record i of a history holds, for each field, the
\* profile's base value plus the profile's slope times the record's step.
Profiles == 1..5

Base ==
    << <<85, 80, 90, 75, 85, 88, 82, 78>>,
       <<45, 40, 35, 50, 30, 25, 38, 42>>,
       <<70, 62, 100, 0, 76, 95, 58, 77>>,
       <<64, 40, 35, 50, 30, 25, 38, 42>>,
       <<65, 69, 73, 77, 30, 20, 40, 10>> >>

Slope ==
    << <<1, 0, -1, 0, 1, 0, -1, 0>>,
       <<1, -1, 0, 1, -1, 0, 1, -1>>,
       <<0, 1, 1, -1, 5, -11, 0, 1>>,
       <<-5, -1, 0, 1, -1, 0, 1, -1>>,
       <<0, 0, 0, 0, 1, -1, 1, 0>> >>

Steps == {0, 12}

FieldIndex(f) == CHOOSE i \in 1..Len(cognitiveFields) : cognitiveFields[i] = f

\* the row of table assessment_results completed on day `day` of January 2024
AssessmentRow(profile, step, day) ==
    [k \in FieldSet \cup {"id", "completed_at"} |->
        IF k = "id" THEN "a" \o ToString(day)
        ELSE IF k = "completed_at" THEN [y |-> 2024, m |-> 1, d |-> day]
        ELSE Base[profile][FieldIndex(k)] + Slope[profile][FieldIndex(k)] * step]

\* .order('completed_at', { ascending: false }), line 150: newest first
AssessmentHistory(profile, steps) ==
    [i \in 1..Len(steps) |-> AssessmentRow(profile, steps[i], Len(steps) + 1 - i)]

SeqsUpTo(S, k) == UNION {[1..m -> S] : m \in 0..k}

AssessmentData ==
    {AssessmentHistory(p, st) : p \in Profiles, st \in SeqsUpTo(Steps, MaxAssess) \ {<<>>}}

InteractionRow(id, feedback) ==
    [technique_id |-> id, technique_title |-> JStr("Technique"),
     feedback |-> feedback, created_at |-> JStr("2024-01-01T00:00:00Z")]

InteractionRows ==
    {InteractionRow(JStr("t1"), JStr("helpful")),
     InteractionRow(JStr("t1"), JStr("not-helpful")),
     InteractionRow(JStr("t2"), JStr("helpful")),
     InteractionRow(JStr("t2"), Null),
     InteractionRow(Null, JStr("helpful"))}

InteractionData == {JArr(rows) : rows \in SeqsUpTo(InteractionRows, MaxInteractions)}

\* rows written to user_insight_history before this run, oldest first: a
\* well-formed one, one whose lists hold entries that are no (area,
\* description) pairs, and one whose columns hold no lists
LegacyHistory ==
    << [id |-> JStr("h1"), user_id |-> UserId, general_insight |-> "Earlier insight.",
        strengths |-> JArr(<<JObj([area |-> "Creativity", description |-> "Old text."])>>),
        weaknesses |-> JArr(<<>>),
        assessment_id |-> "a0", created_at |-> [t |-> "timestamp", v |-> 1]],
       [id |-> JStr("h2"), user_id |-> UserId, general_insight |-> "Earlier insight.",
        strengths |-> JArr(<<Null, JStr("Creativity"), JObj([area |-> "Focus Duration"]),
                             JObj([area |-> "Organization", description |-> "Old text."]),
                             JArr(<<>>), JObj([description |-> "Old text."])>>),
        weaknesses |-> JArr(<<JObj([area |-> "Time Awareness", description |-> "Old text.",
                                    score |-> 12])>>),
        assessment_id |-> "a0", created_at |-> [t |-> "timestamp", v |-> 2]],
       [id |-> JStr("h3"), user_id |-> UserId, general_insight |-> "Earlier insight.",
        strengths |-> Null,
        weaknesses |-> JObj([area |-> "Creativity", description |-> "Old text."]),
        assessment_id |-> "a0", created_at |-> [t |-> "timestamp", v |-> 3]] >>

--------------------------------------------------------------------------
(* The invocations *)

Init ==
    /\ pc = "idle"
    /\ allAssessments = Null
    /\ assessmentError = FALSE
    /\ interactions = Null
    /\ techniqueError = FALSE
    /\ computed = Null
    /\ result = Null
    /\ saveOk = FALSE
    /\ history = LegacyHistory
    /\ calls = <<>>
    /\ hpc = "idle"
    /\ hfetched = Null
    /\ hresult = <<>>
    /\ fin = Null
    /\ fout = Null

hvars == <<hpc, hfetched, hresult>>

fvars == <<fin, fout>>

\* lines 146-150: the invocation issues the assessment query
Invoke ==
    /\ pc = "idle"
    /\ pc' = "awaitAssessments"
    /\ calls' = Append(calls, [op |-> "select", table |-> "assessment_results"])
    /\ UNCHANGED <<allAssessments, assessmentError, interactions, techniqueError, computed,
                   result, saveOk, history, hvars, fvars>>

\* the assessment query's error reaching the caller instead of the catch block
AssessmentsFailedUncaught ==
    /\ pc = "awaitAssessments"
    /\ assessmentError' = TRUE
    /\ pc' = "done"
    /\ result' = [thrown |-> "assessmentError"]
    /\ UNCHANGED <<allAssessments, interactions, techniqueError, computed,
                   saveOk, history, calls, hvars, fvars>>

\* lines 152-155 and 384-391: the assessment query reports an error
AssessmentsFailed ==
    /\ pc = "awaitAssessments"
    /\ assessmentError' = TRUE
    /\ pc' = "done"
    /\ result' = FallbackResult
    /\ UNCHANGED <<allAssessments, interactions, techniqueError, computed,
                   saveOk, history, calls, hvars, fvars>>

\* an empty assessment sequence that still leads to the interaction query
AssessmentsEmptyQuerying ==
    /\ pc = "awaitAssessments"
    /\ \E data \in {Null, JArr(<<>>)} :
          allAssessments' = data
    /\ pc' = "done"
    /\ result' = NoAssessmentsResult
    /\ calls' = Append(calls, [op |-> "select", table |-> "technique_interactions"])
    /\ UNCHANGED <<assessmentError, interactions, techniqueError, computed,
                   saveOk, history, hvars, fvars>>

\* lines 157-163: the assessment query yields no data or no rows
AssessmentsEmpty ==
    /\ pc = "awaitAssessments"
    /\ \E data \in {Null, JArr(<<>>)} :
          allAssessments' = data
    /\ pc' = "done"
    /\ result' = NoAssessmentsResult
    /\ UNCHANGED <<assessmentError, interactions, techniqueError, computed,
                   saveOk, history, calls, hvars, fvars>>

\* lines 157 and 166-170: rows arrive and the interaction query is issued
AssessmentsFetchedFrom(dataSet) ==
    /\ pc = "awaitAssessments"
    /\ \E data \in dataSet :
          allAssessments' = JArr(data)
    /\ pc' = "awaitInteractions"
    /\ calls' = Append(calls, [op |-> "select", table |-> "technique_interactions"])
    /\ UNCHANGED <<assessmentError, interactions, techniqueError, computed, result,
                   saveOk, history, hvars, fvars>>

AssessmentsFetched == AssessmentsFetchedFrom(AssessmentData)

\* an interaction query whose error ends the invocation in the catch block
InteractionsRepliedStrict(dataSet) ==
    /\ pc = "awaitInteractions"
    /\ \E sel \in {Selection(allAssessments.v)} :
          \E failed \in BOOLEAN, pick \in 1..TemplateCount :
             \E data \in (IF failed THEN {Null} ELSE dataSet) :
                /\ techniqueError' = failed
                /\ interactions' = data
                /\ IF failed
                   THEN /\ pc' = "done"
                        /\ result' = FallbackResult
                        /\ UNCHANGED <<computed, calls>>
                   ELSE /\ pc' = "awaitSave"
                        /\ computed' = Analyze(sel, data, pick)
                        /\ calls' = Append(calls, [op |-> "insert", table |-> "user_insight_history",
                                                   row |-> InsightToSave(UserId, computed'.generalInsight,
                                                               sel.strengths, sel.weaknesses,
                                                               sel.latestAssessment)])
                        /\ UNCHANGED result
    /\ UNCHANGED <<allAssessments, assessmentError, saveOk, history, hvars, fvars>>

\* lines 172-370: the interaction query answers (data, or an error with no
\* data), the insight is computed and the insert is issued
InteractionsRepliedFrom(dataSet) ==
    /\ pc = "awaitInteractions"
    /\ \E sel \in {Selection(allAssessments.v)} :
          \E failed \in BOOLEAN, pick \in 1..TemplateCount :
             \E data \in (IF failed THEN {Null} ELSE dataSet) :
                /\ techniqueError' = failed
                /\ interactions' = data
                /\ computed' = Analyze(sel, data, pick)
                /\ calls' = Append(calls, [op |-> "insert", table |-> "user_insight_history",
                                           row |-> InsightToSave(UserId, computed'.generalInsight,
                                                       sel.strengths, sel.weaknesses,
                                                       sel.latestAssessment)])
    /\ pc' = "awaitSave"
    /\ UNCHANGED <<allAssessments, assessmentError, result, saveOk, history, hvars, fvars>>

InteractionsReplied == InteractionsRepliedFrom(InteractionData)

\* the row the table holds after the insert: id and created_at are generated
StoredRow(insightToSave, rows) ==
    [user_id         |-> insightToSave.user_id,
     general_insight |-> insightToSave.general_insight,
     strengths       |-> insightToSave.strengths,
     weaknesses      |-> insightToSave.weaknesses,
     assessment_id   |-> insightToSave.assessment_id,
     id              |-> JStr("h" \o ToString(Len(rows) + 1)),
     created_at      |-> [t |-> "timestamp", v |-> Len(rows) + 1]]

\* lines 366-383: the insert succeeded and returned id and created_at
SaveSucceeded ==
    /\ pc = "awaitSave"
    /\ LET row == StoredRow(calls[Len(calls)].row, history)
       IN  /\ history' = Append(history, row)
           /\ result' = FinalResult(computed, [id |-> row.id, created_at |-> row.created_at])
    /\ saveOk' = TRUE
    /\ pc' = "done"
    /\ UNCHANGED <<allAssessments, assessmentError, interactions, techniqueError, computed,
                   calls, hvars, fvars>>

\* lines 372-383: the insert failed; savedInsight is null
SaveFailed ==
    /\ pc = "awaitSave"
    /\ result' = FinalResult(computed, Null)
    /\ saveOk' = FALSE
    /\ pc' = "done"
    /\ UNCHANGED <<allAssessments, assessmentError, interactions, techniqueError, computed,
                   history, calls, hvars, fvars>>

mvars == <<pc, allAssessments, assessmentError, interactions, techniqueError, computed, result, saveOk, calls>>

\* lines 397-402: getInsightHistory issues its query
HistoryInvoke ==
    /\ hpc \in {"idle", "done"}
    /\ hpc' = "awaitHistory"
    /\ hfetched' = Null
    /\ hresult' = <<>>
    /\ UNCHANGED <<mvars, history, fvars>>

\* lines 409-420: the query answers with its rows
HistoryFetched ==
    /\ hpc = "awaitHistory"
    /\ hfetched' = JArr(NewestRows(history))
    /\ hresult' = ReshapeHistory(hfetched'.v)
    /\ hpc' = "done"
    /\ UNCHANGED <<mvars, history, fvars>>

\* lines 404-407 and 421-424: the query reports an error
HistoryFailed ==
    /\ hpc = "awaitHistory"
    /\ hfetched' = Null
    /\ hresult' = <<>>
    /\ hpc' = "done"
    /\ UNCHANGED <<mvars, history, fvars>>

\* one invocation of getStrengthsAndWeaknesses
Next ==
    \/ Invoke
    \/ AssessmentsFailed
    \/ AssessmentsEmpty
    \/ AssessmentsFetched
    \/ InteractionsReplied
    \/ SaveSucceeded
    \/ SaveFailed

Spec == Init /\ [][Next]_vars

--------------------------------------------------------------------------
(* getStrengthsAndWeaknesses together with getInsightHistory, which may be  *)
(* invoked at any time and again once it has returned.                     *)

\* the most assessment records a fetch returns when both operations run
MaxAssessShared == 2

SharedAssessmentData ==
    {AssessmentHistory(p, st) : p \in Profiles, st \in SeqsUpTo(Steps, MaxAssessShared) \ {<<>>}}

SharedInteractionData ==
    {JArr(<<>>), JArr(<<InteractionRow(JStr("t1"), JStr("helpful"))>>)}

\* a table that already holds HistoryLimit well-formed rows
FullHistory ==
    [i \in 1..HistoryLimit |->
        [id |-> JStr("h" \o ToString(i)), user_id |-> UserId,
         general_insight |-> "Earlier insight.",
         strengths |-> JArr(<<JObj([area |-> "Creativity", description |-> "Old text."])>>),
         weaknesses |-> JArr(<<>>),
         assessment_id |-> "a0", created_at |-> [t |-> "timestamp", v |-> i]]]

InitShared ==
    /\ pc = "idle"
    /\ allAssessments = Null
    /\ assessmentError = FALSE
    /\ interactions = Null
    /\ techniqueError = FALSE
    /\ computed = Null
    /\ result = Null
    /\ saveOk = FALSE
    /\ history \in {LegacyHistory, FullHistory}
    /\ calls = <<>>
    /\ hpc = "idle"
    /\ hfetched = Null
    /\ hresult = <<>>
    /\ fin = Null
    /\ fout = Null

AssessmentsFetchedShared == AssessmentsFetchedFrom(SharedAssessmentData)

InteractionsRepliedShared == InteractionsRepliedFrom(SharedInteractionData)

NextShared ==
    \/ Invoke
    \/ AssessmentsFailed
    \/ AssessmentsEmpty
    \/ AssessmentsFetchedShared
    \/ InteractionsRepliedShared
    \/ SaveSucceeded
    \/ SaveFailed
    \/ HistoryInvoke
    \/ HistoryFetched
    \/ HistoryFailed

SpecShared == InitShared /\ [][NextShared]_vars

--------------------------------------------------------------------------
(* Claims about getStrengthsAndWeaknesses, under Spec *)

Returned == pc = "done"

\* the assessment query succeeded with at least one row
HasAssessments == ~assessmentError /\ allAssessments # Null /\ Len(allAssessments.v) > 0

\* the assessment query succeeded with no rows, or with no data
NoAssessments == ~assessmentError /\ (allAssessments = Null \/ Len(allAssessments.v) = 0)

AreaSet(items) == {items[i].area : i \in 1..Len(items)}

\* C1: whenever the invocation returns for a non-empty assessment sequence,
\* whatever the interaction query gave, the result holds at most 3 strengths
\* and at most 3 weaknesses, and no area name is in both lists.
C1_AtMostThreeAndDisjoint ==
    (Returned /\ HasAssessments) =>
        /\ Len(result.strengths) <= 3
        /\ Len(result.weaknesses) <= 3
        /\ AreaSet(result.strengths) \cap AreaSet(result.weaknesses) = {}

\* C1 witness: a returned result with 3 strengths cut from more than 3
\* strength areas, and one with 3 weaknesses beside a strength
C1_Witness ==
    /\ Returned /\ HasAssessments
    /\ Len(result.strengths) = 3
    /\ Cardinality({i \in 1..Len(computed.scored) : computed.scored[i].isStrength}) > 3
    /\ Len(result.weaknesses) = 3

\* C2: when the assessment query succeeds with an empty or absent sequence,
\* the invocation returns empty strengths and weaknesses and exactly the
\* "Complete an assessment" text, with no id, createdAt or assessmentId, and
\* has issued no interaction query, no analysis and no insert.
C2_EmptyShortCircuit ==
    (Returned /\ NoAssessments) =>
        /\ result = [strengths |-> <<>>, weaknesses |-> <<>>,
                     generalInsight |-> "Complete an assessment to see personalized insights."]
        /\ calls = <<[op |-> "select", table |-> "assessment_results"]>>
        /\ computed = Null
        /\ history = LegacyHistory

C2_Witness ==
    /\ Returned /\ NoAssessments
    /\ allAssessments = JArr(<<>>)

\* C3: when the assessment query fails, the invocation returns (it does not
\* throw) exactly the fallback: empty lists and the "trouble analyzing" text,
\* with no id, createdAt or assessmentId; no interaction query and no insert
\* was issued.
C3_FetchFailureFallback ==
    (Returned /\ assessmentError) =>
        /\ result = [strengths |-> <<>>, weaknesses |-> <<>>,
                     generalInsight |->
                        "We're having trouble analyzing your data. Please try again later."]
        /\ calls = <<[op |-> "select", table |-> "assessment_results"]>>
        /\ history = LegacyHistory

C3_Witness == Returned /\ assessmentError

\* the result's id and createdAt, absent from the two early results
ResultId == IF "id" \in DOMAIN result THEN result.id ELSE Undefined

ResultCreatedAt == IF "createdAt" \in DOMAIN result THEN result.createdAt ELSE Undefined

InsertIssued == Len(calls) = 3 /\ calls[3].op = "insert"

\* C4: with a non-empty assessment sequence the fallback result is never
\* returned.  When the interaction query failed, what was computed is what an
\* empty interaction sequence gives (same strengths and weaknesses, narrative
\* with no technique sentence) and the insert was still issued.  When the
\* insert failed, the computed strengths, weaknesses, narrative and
\* assessmentId are returned with id and createdAt undefined.  id and
\* createdAt are defined in a result only when the insert succeeded.
C4_GracefulDegradation ==
    /\ (Returned /\ HasAssessments) =>
          /\ result # FallbackResult
          /\ result.generalInsight # FallbackInsight
          /\ result.strengths = computed.strengths
          /\ result.weaknesses = computed.weaknesses
          /\ result.generalInsight = computed.generalInsight
          /\ result.assessmentId = computed.assessmentId
          /\ ~saveOk => (result.id = Undefined /\ result.createdAt = Undefined)
    /\ (HasAssessments /\ techniqueError /\ pc \in {"awaitSave", "done"}) =>
          /\ InsertIssued
          /\ HelpfulTechniques(computed.techniquePatterns) = 0
          /\ \E sel \in {Selection(allAssessments.v)} :
                /\ computed.strengths = sel.strengths
                /\ computed.weaknesses = sel.weaknesses
                /\ \E pick \in 1..TemplateCount :
                      /\ computed = Analyze(sel, JArr(<<>>), pick)
                      /\ computed.generalInsight =
                            InsightTemplate(pick,
                               [assessmentCount  |-> sel.assessmentCount,
                                formattedDate    |-> FormatDate(sel.latestAssessment.completed_at),
                                strengthsPhrase  |-> StrengthsPhrase(sel.strengths),
                                weaknessesPhrase |-> WeaknessesPhrase(sel.weaknesses),
                                patternPhrase    |-> PatternPhrase(ImprovingAreas(sel.historicalPatterns)),
                                techniquePhrase  |-> ""])
    /\ (Returned /\ (ResultId # Undefined \/ ResultCreatedAt # Undefined)) => saveOk

\* C4 witness: the interaction query failed, the insert failed too, and a
\* result with strengths and weaknesses was returned
C4_Witness ==
    /\ Returned /\ HasAssessments
    /\ techniqueError /\ ~saveOk
    /\ Len(result.strengths) > 0 /\ Len(result.weaknesses) > 0
    /\ Len(allAssessments.v) > 1

\* C5: the insert is issued at most once, as the third call, after both
\* queries were answered and the strengths, weaknesses and narrative were
\* computed; the row it writes holds the id of the first (newest) assessment
\* record, which is the returned assessmentId, and the strengths and
\* weaknesses that are returned.
C5_SingleWriteAfterComputation ==
    /\ Cardinality({i \in 1..Len(calls) : calls[i].op = "insert"}) <= 1
    /\ \A i \in 1..Len(calls) :
          calls[i].op = "insert" =>
             /\ i = 3
             /\ calls[1] = [op |-> "select", table |-> "assessment_results"]
             /\ calls[2] = [op |-> "select", table |-> "technique_interactions"]
             /\ pc \in {"awaitSave", "done"}
             /\ HasAssessments
             /\ computed # Null
             /\ calls[i].row.general_insight = computed.generalInsight
             /\ calls[i].row.strengths = InsightsToJson(computed.strengths)
             /\ calls[i].row.weaknesses = InsightsToJson(computed.weaknesses)
             /\ calls[i].row.assessment_id = allAssessments.v[1].id
             /\ Returned =>
                   /\ result.assessmentId = calls[i].row.assessment_id
                   /\ InsightsToJson(result.strengths) = calls[i].row.strengths
                   /\ InsightsToJson(result.weaknesses) = calls[i].row.weaknesses
    /\ (Returned /\ saveOk) =>
          /\ InsertIssued
          /\ history[Len(history)].assessment_id = result.assessmentId

\* C5 witness: a saved result computed from several assessment records
C5_Witness ==
    /\ Returned /\ saveOk
    /\ InsertIssued
    /\ Len(allAssessments.v) > 1
    /\ result.assessmentId = "a" \o ToString(Len(allAssessments.v))
    /\ Len(result.strengths) > 0

\* a priority score of 70 or more
AtLeastThreshold(priorityScore) == priorityScore.n >= 70 * priorityScore.d

ScoredArea(area) == CHOOSE i \in 1..Len(computed.scored) : computed.scored[i].area = area

\* C7: each of the 8 dimensions is exactly one of strength and weakness, a
\* strength if and only if its priority score is at least 70; every returned
\* strength has a score of at least 70 and every returned weakness a score
\* below 70.
C7_ThresholdClassification ==
    computed # Null =>
       /\ Len(computed.scored) = 8
       /\ \A i \in 1..Len(computed.scored) :
             /\ computed.scored[i].isStrength # computed.scored[i].isWeakness
             /\ computed.scored[i].isStrength <=> AtLeastThreshold(computed.scored[i].priorityScore)
       /\ \A k \in 1..Len(computed.strengths) :
             /\ computed.strengths[k].area \in AreaSet(computed.scored)
             /\ AtLeastThreshold(computed.scored[ScoredArea(computed.strengths[k].area)].priorityScore)
       /\ \A k \in 1..Len(computed.weaknesses) :
             /\ computed.weaknesses[k].area \in AreaSet(computed.scored)
             /\ ~AtLeastThreshold(computed.scored[ScoredArea(computed.weaknesses[k].area)].priorityScore)
       /\ Returned => (result.strengths = computed.strengths /\ result.weaknesses = computed.weaknesses)

\* C7 witness: a returned strength whose score is exactly 70, beside a weakness
C7_Witness ==
    /\ Returned /\ computed # Null
    /\ \E k \in 1..Len(result.strengths) :
          computed.scored[ScoredArea(result.strengths[k].area)].priorityScore = RInt(70)
    /\ Len(result.weaknesses) > 0

--------------------------------------------------------------------------
(* calculatePriorityScore on its own: any raw value, any pattern or none,   *)
(* any assessment sequence, none of them derived from the others.           *)

\* the most assessment records handed to calculatePriorityScore
MaxScoreHistory == 3

ScoreField == "creativity_score"

ScoreValues == {-50, 0, 69, 100, 250}

HistoryValues == {-100, 40, 200}

\* variances on both sides of consistency 80 (variance 400) and of
\* consistency 40 (variance 3600)
ScorePatterns ==
    {[average |-> a, trend |-> t, variance |-> RInt(v)] :
        a \in {Rat(-600, 1), Rat(0, 1), Rat(211, 3), Rat(900, 1)},
        t \in {"improving", "declining", "stable", "unknown"},
        v \in {0, 400, 3600, 3601}}

ScoreHistories ==
    {[i \in 1..Len(vs) |-> [f \in {ScoreField} |-> vs[i]]] : vs \in SeqsUpTo(HistoryValues, MaxScoreHistory)}

ScoreInputs ==
    {[value |-> v, pattern |-> p, allAssessments |-> h] :
        v \in ScoreValues, p \in ScorePatterns \cup {Null}, h \in ScoreHistories}

\* the state of a specification in which only a function is applied
FunctionInit(inputs) ==
    /\ pc = "called"
    /\ allAssessments = Null
    /\ assessmentError = FALSE
    /\ interactions = Null
    /\ techniqueError = FALSE
    /\ computed = Null
    /\ result = Null
    /\ saveOk = FALSE
    /\ history = <<>>
    /\ calls = <<>>
    /\ hpc = "idle"
    /\ hfetched = Null
    /\ hresult = <<>>
    /\ fin \in inputs
    /\ fout = Null

InitScore == FunctionInit(ScoreInputs)

ScoreApplied ==
    /\ pc = "called"
    /\ fout' = calculatePriorityScore(
                  [field |-> ScoreField, value |-> fin.value, pattern |-> fin.pattern],
                  [f \in {ScoreField} |-> fin.pattern], fin.allAssessments)
    /\ pc' = "returned"
    /\ UNCHANGED <<allAssessments, assessmentError, interactions, techniqueError, computed,
                   result, saveOk, history, calls, hvars, fin>>

NextScore == ScoreApplied

SpecScore == InitScore /\ [][NextScore]_vars

\* C6: for every raw value (in 0..100 or not), every pattern or none (any
\* trend, consistency and average) and every assessment sequence, the score
\* calculatePriorityScore returns is at least 0 and at most 100.
C6_ScoreWithinBounds ==
    pc = "returned" =>
       /\ fout.d > 0
       /\ 0 <= fout.n
       /\ fout.n <= 100 * fout.d

\* C6 witness: a raw value above 100 with an improving pattern and a rising
\* history, returned as 100
C6_Witness ==
    /\ pc = "returned"
    /\ fin.value > 100
    /\ fin.pattern # Null
    /\ fin.pattern.trend = "improving"
    /\ Len(fin.allAssessments) = 3
    /\ fout = RInt(100)

--------------------------------------------------------------------------
(* analyzeHistoricalPatterns on its own *)

\* the most assessment records handed to analyzeHistoricalPatterns
MaxTrendLen == 6

TrendValues == {2, 3, 7, 8}

\* record i holds values[i] in every other field and its mirror image in the rest
TrendRows(values) ==
    [i \in 1..Len(values) |->
        [f \in FieldSet |-> IF FieldIndex(f) % 2 = 1 THEN values[i] ELSE 10 - values[i]]]

TrendInputs == {TrendRows(values) : values \in SeqsUpTo(TrendValues, MaxTrendLen)}

InitTrend == FunctionInit(TrendInputs)

PatternsAnalyzed ==
    /\ pc = "called"
    /\ fout' = analyzeHistoricalPatterns(fin)
    /\ pc' = "returned"
    /\ UNCHANGED <<allAssessments, assessmentError, interactions, techniqueError, computed,
                   result, saveOk, history, calls, hvars, fin>>

NextTrend == PatternsAnalyzed

SpecTrend == InitTrend /\ [][NextTrend]_vars

\* the trend of the rule as stated: the means compared as exact numbers
StatedTrend(values) ==
    IF Len(values) < 4 THEN "stable"
    ELSE LET k1 == Len(values) \div 2
             k2 == Len(values) - k1
             s1 == SumSeq(SubSeq(values, 1, k1))
             s2 == SumSeq(SubSeq(values, k1 + 1, Len(values)))
         IN  IF s2 * k1 - s1 * k2 > 5 * k1 * k2 THEN "improving"
             ELSE IF s1 * k2 - s2 * k1 > 5 * k1 * k2 THEN "declining"
             ELSE "stable"

\* C8: for every dimension the trend is stable with fewer than 4 records;
\* with n >= 4 records, split in the given order at floor(n/2), it is
\* improving iff the mean of the second part exceeds the mean of the first
\* by more than 5, declining iff it is lower by more than 5, and stable
\* otherwise, a difference of exactly 5 included.
C8_TrendRule ==
    (pc = "returned" /\ Len(fin) > 0) =>
       \A f \in FieldSet : fout[f].trend = StatedTrend(FieldValues(fin, f))

\* C8: the records 3, 3, 2, 8, 8, 7, whose halves' means differ by exactly 5,
\* are reported as improving
C8_Witness ==
    /\ pc = "returned"
    /\ FieldValues(fin, "creativity_score") = <<3, 3, 2, 8, 8, 7>>
    /\ StatedTrend(FieldValues(fin, "creativity_score")) = "stable"
    /\ fout["creativity_score"].trend = "improving"

--------------------------------------------------------------------------
(* analyzeTechniquePatterns on its own *)

\* the most interaction records handed to analyzeTechniquePatterns
MaxTechLen == 3

TechniqueIds == {"t1", "t2", "constructor"}

ValidRows ==
    {InteractionRow(JStr(id), feedback) :
        id \in TechniqueIds, feedback \in {JStr("helpful"), JStr("not-helpful"), Null}}

TechInputs == SeqsUpTo(ValidRows, MaxTechLen)

InitTechnique == FunctionInit(TechInputs)

TechniquesAnalyzed ==
    /\ pc = "called"
    /\ fout' = analyzeTechniquePatterns(fin)
    /\ pc' = "returned"
    /\ UNCHANGED <<allAssessments, assessmentError, interactions, techniqueError, computed,
                   result, saveOk, history, calls, hvars, fin>>

NextTechnique == TechniquesAnalyzed

SpecTechnique == InitTechnique /\ [][NextTechnique]_vars

\* the number of records of the input with the given id and feedback
CountOf(id, feedbacks) ==
    Cardinality({i \in 1..Len(fin) : fin[i].technique_id = JStr(id) /\ fin[i].feedback \in feedbacks})

AnyFeedback == {JStr("helpful"), JStr("not-helpful"), Null}

IdsPresent == {fin[i].technique_id.v : i \in 1..Len(fin)}

RECURSIVE TotalOver(_, _)
TotalOver(stats, ids) ==
    IF ids = {} THEN 0
    ELSE LET id == CHOOSE x \in ids : TRUE
         IN  stats[id].totalInteractions + TotalOver(stats, ids \ {id})

\* C9: after any sequence of valid interaction records, every technique id
\* present has an entry whose totalInteractions is the number of records
\* with that id and equals helpful + notHelpful + the number of its records
\* with absent feedback; no count is negative, and every record is counted
\* once in one technique's counts.
C9_TechniqueAccounting ==
    pc = "returned" =>
       /\ \A id \in IdsPresent :
             /\ id \in DOMAIN fout
             /\ fout[id].totalInteractions = CountOf(id, AnyFeedback)
             /\ fout[id].helpful = CountOf(id, {JStr("helpful")})
             /\ fout[id].notHelpful = CountOf(id, {JStr("not-helpful")})
             /\ fout[id].totalInteractions
                   = fout[id].helpful + fout[id].notHelpful + CountOf(id, {Null})
             /\ fout[id].helpful >= 0 /\ fout[id].notHelpful >= 0
       /\ DOMAIN fout \subseteq IdsPresent
       /\ TotalOver(fout, DOMAIN fout) = Len(fin)

\* C9: records of the technique "constructor" are counted in no entry of the
\* mapping returned
C9_Witness ==
    /\ pc = "returned"
    /\ Len(fin) = 3
    /\ CountOf("constructor", AnyFeedback) = 2
    /\ CountOf("t1", AnyFeedback) = 1
    /\ DOMAIN fout = {"t1"}
    /\ fout["t1"].totalInteractions = 1

--------------------------------------------------------------------------
(* Claims about the history store, under SpecShared *)

\* the history query was answered after the last insert
FetchedAfterSave ==
    /\ hpc = "done"
    /\ hfetched # Null
    /\ hfetched = JArr(NewestRows(history))

\* a stored entry that is an object holding an area and a description
IsPair(e) == e.t = "object" /\ {"area", "description"} \subseteq DOMAIN e.v

\* the entries of a stored list that are pairs, in their order
RECURSIVE PairsOf(_)
PairsOf(entries) ==
    IF entries = <<>> THEN <<>>
    ELSE IF IsPair(Head(entries)) THEN <<Head(entries).v>> \o PairsOf(Tail(entries))
    ELSE PairsOf(Tail(entries))

StoredList(stored) == IF stored.t = "array" THEN PairsOf(stored.v) ELSE <<>>

\* C10: once getStrengthsAndWeaknesses has saved a result, a getInsightHistory
\* answered afterwards returns an entry with the same strengths and
\* weaknesses (the same pairs in the same order), generalInsight and
\* assessmentId.  Of every stored row the entries that are not objects with
\* both an area and a description are dropped, and a stored value that is
\* not a list comes back as the empty list.
C10_HistoryRoundTrip ==
    /\ (Returned /\ saveOk /\ FetchedAfterSave) =>
          \E i \in 1..Len(hresult) :
             /\ hresult[i].id = result.id
             /\ hresult[i].strengths = result.strengths
             /\ hresult[i].weaknesses = result.weaknesses
             /\ hresult[i].generalInsight = result.generalInsight
             /\ hresult[i].assessmentId = result.assessmentId
             /\ hresult[i].createdAt = result.createdAt
    /\ (hpc = "done" /\ hfetched # Null) =>
          /\ Len(hresult) = Len(hfetched.v)
          /\ \A k \in 1..Len(hresult) :
                /\ hresult[k].strengths = StoredList(hfetched.v[k].strengths)
                /\ hresult[k].weaknesses = StoredList(hfetched.v[k].weaknesses)

\* C10 witness: a saved result with strengths and weaknesses read back
\* together with the rows holding malformed entries and values that are no lists
C10_Witness ==
    /\ Returned /\ saveOk /\ FetchedAfterSave
    /\ Len(result.strengths) > 0 /\ Len(result.weaknesses) > 0
    /\ Len(hresult) = 4
    /\ hresult[1].strengths = result.strengths
    /\ Len(hfetched.v[3].strengths.v) = 6 /\ Len(hresult[3].strengths) = 1
    /\ hfetched.v[2].strengths = Null /\ hresult[2].strengths = <<>>

\* C11: getInsightHistory hands no failure on.  When its query fails it
\* returns the empty sequence; when the query succeeds it returns one
\* reshaped entry per fetched row, at most 10 of them, the newest rows of
\* the store in newest-first order.
C11_HistoryNeverPropagates ==
    hpc = "done" =>
       /\ hfetched = Null => hresult = <<>>
       /\ hfetched # Null =>
             /\ Len(hresult) = Len(hfetched.v)
             /\ Len(hresult) <= 10
             /\ \A i \in 1..Len(hresult) :
                   /\ hresult[i] = ReshapeRow(hfetched.v[i])
                   /\ hresult[i].id = hfetched.v[i].id
                   /\ hresult[i].createdAt = hfetched.v[i].created_at
                   /\ \E k \in 1..Len(history) : history[k].id = hresult[i].id
             /\ \A i \in 1..(Len(hresult) - 1) :
                   hresult[i].createdAt.v > hresult[i + 1].createdAt.v
             /\ hfetched = JArr(NewestRows(history)) =>
                   /\ Len(hresult) = Min(10, Len(history))
                   /\ \A i \in 1..Len(hresult) :
                         hresult[i].id = history[Len(history) + 1 - i].id

\* C11 witness: the store holds 11 rows, the newest of them just saved, and
\* the 10 newest are returned, the saved one first
C11_Witness ==
    /\ hpc = "done" /\ hfetched # Null
    /\ Returned /\ saveOk
    /\ Len(history) = 11
    /\ Len(hresult) = 10
    /\ hresult[1].id = result.id
    /\ hresult[10].id = JStr("h2")

\* the position of an area in the returned strengths, 0 if it is not returned
StrengthPosition(area) ==
    IF \E k \in 1..Len(computed.strengths) : computed.strengths[k].area = area
    THEN CHOOSE k \in 1..Len(computed.strengths) : computed.strengths[k].area = area
    ELSE 0

\* the scored area at index i is a strength whose score exceeds that of the
\* strength at index j by more than 5
OutranksByScore(i, j) ==
    /\ computed.scored[i].isStrength
    /\ computed.scored[j].isStrength
    /\ RLess(RInt(5), RSub(computed.scored[i].priorityScore, computed.scored[j].priorityScore))

\* C12: of any two strength-classified dimensions whose priority scores
\* differ by more than 5, the lower-scored one is never returned ahead of the
\* higher-scored one, and is never returned while the higher-scored one is
\* left out.
C12_StrengthRanking ==
    computed # Null =>
       \A i, j \in 1..Len(computed.scored) :
          (OutranksByScore(i, j) /\ StrengthPosition(computed.scored[j].area) > 0) =>
             /\ StrengthPosition(computed.scored[i].area) > 0
             /\ StrengthPosition(computed.scored[i].area) < StrengthPosition(computed.scored[j].area)

\* C12: a single assessment record with creativity_score 65, problem_solving
\* 69, pattern_recognition 73 and focus_duration 77 scores them 72.2, 76.2,
\* 80.2 and 84.2; Creativity is returned first and Focus Duration is left out
C12_Witness ==
    /\ Returned /\ HasAssessments
    /\ Len(allAssessments.v) = 1
    /\ allAssessments.v[1]["creativity_score"] = 65
    /\ allAssessments.v[1]["focus_duration"] = 77
    /\ computed.scored[1].priorityScore = Rat(722, 10)
    /\ computed.scored[4].priorityScore = Rat(842, 10)
    /\ AreaNames(result.strengths) = <<"Creativity", "Problem Solving", "Pattern Recognition">>

\* the indices of the weakness-classified dimensions
WeakIndices == {i \in 1..Len(computed.scored) : computed.scored[i].isWeakness}

\* whether the trend of the dimension at index i is improving
ImprovingAt(i) == computed.scored[i].improving

\* the adjusted score of the dimension at index i
AdjustedAt(i) ==
    RAdd(computed.scored[i].priorityScore, RInt(IF ImprovingAt(i) THEN 10 ELSE 0))

\* the position of the dimension at index i in the returned weaknesses, 0 if
\* it is not returned
WeaknessPosition(i) ==
    IF \E k \in 1..Len(computed.weaknesses) : computed.weaknesses[k].area = computed.scored[i].area
    THEN CHOOSE k \in 1..Len(computed.weaknesses) :
            computed.weaknesses[k].area = computed.scored[i].area
    ELSE 0

====
